---- MODULE Spec2Model ----
(***************************************************************************)
(* Automatic batch-size selection of tools/train.py: the capacity probe    *)
(* (determine_max_batch_size), the 0.9 safety margin, the MIN all_reduce   *)
(* across the workers of a distributed job, and the shard-length clamp in  *)
(* main.  Every worker is one process running main; the workers share only *)
(* the collective reduction.                                               *)
(***************************************************************************)
EXTENDS Integers, Sequences, FiniteSets, TLC

(* ------------------------------ bounds --------------------------------- *)
\* Spec: largest small shard length, largest small memory ceiling, number of
\* injected non-OOM failures, largest candidate at which one is injected.
MaxShard == 11
MaxCeil == 10
MaxFaults == 1
MaxFaultBs == 12
\* SpecDist: largest world size and largest total dataset length.
MaxWorld == 3
MaxDataset == 27
\* Largest samples_per_gpu a configuration file gives.
MaxCfg == 12

\* Shard lengths around the 512 cap of max_bs, and a ceiling no candidate
\* reaches (the device never runs out of memory).
BigShards == {459, 460, 461}
BigCeil == 600
SweepShard == 461
FairShard == 4
FairCeilings == {1, 3, MaxCeil}
\* Memory ceilings of the workers of a distributed job.
DistCeilings == {1, 6, 8, MaxCeil}

(* ------------------------- program constants --------------------------- *)
\* cfg.data.samples_per_gpu == 'auto' (train.py:228); batch sizes are >= 0.
AUTO == -1
\* percentage = 0.9 (train.py:97), as the fraction PercentNum / PercentDen.
PercentNum == 9
PercentDen == 10
\* min_bs = 2, the 512 of max_bs, step = 1 (train.py:99-101).
min_bs == 2
BsCap == 512
step == 1

Min2(a, b) == IF a <= b THEN a ELSE b

\* int(dataset_len_per_gpu / percentage): the double quotient L / 0.9
\* truncates to floor(10 L / 9) (for a multiple of 9 it rounds to 10 L / 9).
IntDivPercentage(len) == (len * PercentDen) \div PercentNum

\* Mutant of MaxBs: the 512 cap is dropped.
MaxBsNoCap(len) == IntDivPercentage(len) + 1

\* Mutant of MaxBs: the range of the loop includes its upper bound.
MaxBsInclusive(len) == Min2(BsCap, IntDivPercentage(len) + 1) + 1

\* max_bs = min(512, int(dataset_len_per_gpu / percentage) + 1)
MaxBs(len) == Min2(BsCap, IntDivPercentage(len) + 1)

\* Mutant of SafeValue: the margin is applied to the truncated tenth.
SafeValueDivFirst(b) == (b \div PercentDen) * PercentNum

\* Mutant of SafeValue: no margin is taken.
SafeValueNoMargin(b) == b

\* Mutant of SafeValue: rounds to nearest where int() truncates.
SafeValueRounded(b) == (b * PercentNum + 5) \div PercentDen

\* resulting_batch_size = int(batch_size * percentage): floor(9 b / 10).
SafeValue(b) == (b * PercentNum) \div PercentDen

\* Mutant of ReduceOpMin: ReduceOp.MAX.
ReduceOpMax(S) == CHOOSE x \in S : \A y \in S : x >= y

\* torch.distributed.ReduceOp.MIN over the contributed tensors.
ReduceOpMin(S) == CHOOSE x \in S : \A y \in S : x <= y

VARIABLES
  distributed,          \* main: launcher != 'none'
  cuda,                 \* torch.cuda.is_available()
  cfg_samples_per_gpu,  \* main: samples_per_gpu of the file, before update_config is merged
  world_size,           \* get_dist_info()[1]
  dataset_len_per_gpu,  \* main: the worker's shard length (the same on every worker)
  ceiling,              \* per worker: largest batch the device runs without OOM
  faults,               \* non-OOM failures the environment may still raise
  pc,                   \* per worker: position in main / determine_max_batch_size
  device,               \* per worker: [model |-> probe model on device, cached |-> allocator cache non-empty]
  max_bs,               \* per worker: exclusive loop bound
  bs,                   \* per worker: next candidate of range(min_bs, max_bs, step)
  batch_size,           \* per worker: best-so-far
  log,                  \* per worker: the candidates tested so far, <<bs, outcome>>
  resulting_batch_size, \* per worker: local safe value, then the reduced value
  reduce_in,            \* the all_reduce: the values contributed so far
  samples_per_gpu,      \* per worker: cfg.data.samples_per_gpu
  dumped,               \* per worker: samples_per_gpu in the config file written by cfg.dump
  warned                \* per worker: the clamp's logger.warning was emitted

vars == <<distributed, cuda, cfg_samples_per_gpu, world_size,
          dataset_len_per_gpu, ceiling, faults, pc,
          device, max_bs, bs, batch_size, log, resulting_batch_size,
          reduce_in, samples_per_gpu, dumped, warned>>

Workers == 1 .. world_size

\* The candidates at which the environment raises a non-OOM failure: any up
\* to MaxFaultBs in one process, the first one in a job of several workers.
FaultSizes == IF world_size = 1 THEN min_bs .. MaxFaultBs ELSE {min_bs}

\* The number of such failures: up to MaxFaults in one process, one in a job
\* of several workers.
FaultBudget == IF world_size = 1 THEN MaxFaults ELSE 1

NoValue == -2

\* The device as main leaves it before auto-selection: main's own model is
\* built on the host, nothing is allocated on the device.
CleanDevice == [model |-> FALSE, cached |-> FALSE]

\* Every worker reads the same configuration: samples_per_gpu is 'auto' or a
\* number.
InitWorker(W) ==
  /\ pc = [w \in W |-> "main"]
  /\ device = [w \in W |-> CleanDevice]
  /\ max_bs = [w \in W |-> 0]
  /\ bs = [w \in W |-> 0]
  /\ batch_size = [w \in W |-> 0]
  /\ log = [w \in W |-> <<>>]
  /\ resulting_batch_size = [w \in W |-> NoValue]
  /\ reduce_in = [w \in W |-> NoValue]
  /\ samples_per_gpu \in {[w \in W |-> c] : c \in {AUTO} \cup (1 .. MaxCfg)}
  /\ dumped = [w \in W |-> AUTO]
  /\ warned = [w \in W |-> FALSE]

\* One process (launcher 'none', or a distributed job of one worker), any
\* shard length and ceiling, with injected failures.
Init ==
  /\ distributed \in BOOLEAN
  /\ cuda \in BOOLEAN
  /\ world_size = 1
  /\ dataset_len_per_gpu \in (1 .. MaxShard) \cup BigShards
  /\ ceiling \in [1 .. 1 -> (0 .. MaxCeil) \cup {BigCeil}]
  /\ faults = FaultBudget
  /\ InitWorker(1 .. 1)
  /\ cfg_samples_per_gpu = samples_per_gpu[1]

\* A job of 1..MaxWorld workers: dataset_len_per_gpu = len // world_size,
\* asserted > 0 (train.py:224-227).  The workers run the same program, so
\* the ranks are numbered by ceiling.
InitDist ==
  /\ distributed \in BOOLEAN
  /\ cuda \in BOOLEAN
  /\ world_size \in (IF distributed THEN 1 .. MaxWorld ELSE {1})
  /\ \E total \in world_size .. MaxDataset :
       dataset_len_per_gpu = total \div world_size
  /\ ceiling \in {c \in [1 .. world_size -> DistCeilings] :
                    \A v \in 1 .. world_size - 1 : c[v] <= c[v + 1]}
  /\ faults = FaultBudget
  /\ InitWorker(1 .. world_size)
  /\ cfg_samples_per_gpu = samples_per_gpu[1]

\* One process whose command line may override samples_per_gpu
\* (--update_config, lines 153-156): the file gives one value, the merged
\* configuration another.
InitMain ==
  /\ distributed \in BOOLEAN
  /\ cuda \in BOOLEAN
  /\ world_size = 1
  /\ dataset_len_per_gpu \in 1 .. MaxShard
  /\ ceiling \in [1 .. 1 -> {0, MaxCeil}]
  /\ faults = 0
  /\ InitWorker(1 .. 1)
  /\ cfg_samples_per_gpu \in {AUTO} \cup (1 .. MaxCfg)

\* One process on a shard long enough for the cap of 512 to decide the loop
\* bound, with every memory ceiling 0..512 and no injected failure: the probe
\* ends with every raw capacity it can end with.
InitSweep ==
  /\ distributed \in BOOLEAN
  /\ cuda \in BOOLEAN
  /\ world_size = 1
  /\ dataset_len_per_gpu = SweepShard
  /\ ceiling \in [1 .. 1 -> 0 .. BsCap]
  /\ faults = 0
  /\ InitWorker(1 .. 1)
  /\ cfg_samples_per_gpu = samples_per_gpu[1]

\* A small job of 1..MaxWorld workers, for the runs that are checked to
\* their end: short shards, ranks numbered by ceiling.
InitFair ==
  /\ distributed \in BOOLEAN
  /\ cuda \in BOOLEAN
  /\ world_size \in (IF distributed THEN 1 .. MaxWorld ELSE {1})
  /\ dataset_len_per_gpu \in 1 .. FairShard
  /\ ceiling \in {c \in [1 .. world_size -> FairCeilings] :
                    \A v \in 1 .. world_size - 1 : c[v] <= c[v + 1]}
  /\ faults = FaultBudget
  /\ InitWorker(1 .. world_size)
  /\ cfg_samples_per_gpu = samples_per_gpu[1]

\* Lines 228-231 of main take the auto-selection branch; lines 81-103: build
\* the probe model on the device, compute the loop bounds, batch_size = min_bs.
Enter(w) ==
  /\ pc[w] = "main"
  /\ samples_per_gpu[w] = AUTO
  /\ cuda
  /\ device' = [device EXCEPT ![w].model = TRUE]
  /\ max_bs' = [max_bs EXCEPT ![w] = MaxBs(dataset_len_per_gpu)]
  /\ bs' = [bs EXCEPT ![w] = min_bs]
  /\ batch_size' = [batch_size EXCEPT ![w] = min_bs]
  /\ pc' = [pc EXCEPT ![w] = "loop"]
  /\ UNCHANGED <<distributed, cuda, cfg_samples_per_gpu, world_size,
                 dataset_len_per_gpu, ceiling, faults,
                 log, resulting_batch_size, reduce_in, samples_per_gpu, dumped,
                 warned>>

\* Lines 228-237 of main without an accelerator: no probe, the batch size
\* is the value the file gave before update_config was merged.
Fallback(w) ==
  /\ pc[w] = "main"
  /\ samples_per_gpu[w] = AUTO
  /\ ~cuda
  /\ samples_per_gpu' = [samples_per_gpu EXCEPT ![w] = cfg_samples_per_gpu]
  /\ pc' = [pc EXCEPT ![w] = "clamp"]
  /\ UNCHANGED <<distributed, cuda, cfg_samples_per_gpu, world_size,
                 dataset_len_per_gpu, ceiling, faults, device, max_bs, bs,
                 batch_size, log, resulting_batch_size, reduce_in, dumped,
                 warned>>

\* What one forward+backward at candidate b can do on worker w: it runs out
\* of memory iff b exceeds the ceiling; the environment may instead raise
\* another RuntimeError ("rt") or an exception of another class ("exc").
Outcomes(w, b) ==
  (IF b <= ceiling[w] THEN {"ok"} ELSE {"oom"})
    \cup (IF faults > 0 /\ b \in FaultSizes THEN {"rt", "exc"} ELSE {})

\* Mutant of RecordSuccess: the success is not recorded.
RecordSuccessKeepsOld(old, b) == old

\* The try body succeeded: batch_size = bs (line 126).
RecordSuccess(old, b) == b

\* Mutant of AfterRuntimeError: the break is missing.
AfterRuntimeErrorNoBreak(oom) == "loop"

\* except RuntimeError: 'CUDA out of memory' breaks the loop, any other
\* RuntimeError is dropped and the loop goes on (lines 127-129).
AfterRuntimeError(oom) == IF oom THEN "after" ELSE "loop"

\* One iteration of for bs in range(min_bs, max_bs, step), lines 104-129.
Step(w) ==
  /\ pc[w] = "loop"
  /\ bs[w] < max_bs[w]
  /\ \E o \in Outcomes(w, bs[w]) :
       /\ log' = [log EXCEPT ![w] = Append(@, <<bs[w], o>>)]
       /\ faults' = IF o \in {"rt", "exc"} THEN faults - 1 ELSE faults
       /\ device' = [device EXCEPT ![w].cached = TRUE]
       /\ batch_size' = [batch_size EXCEPT
                           ![w] = IF o = "ok" THEN RecordSuccess(@, bs[w]) ELSE @]
       /\ bs' = [bs EXCEPT ![w] = IF o \in {"ok", "rt"} THEN @ + step ELSE @]
       /\ pc' = [pc EXCEPT ![w] = CASE o = "ok" -> "loop"
                                    [] o = "oom" -> AfterRuntimeError(TRUE)
                                    [] o = "rt" -> AfterRuntimeError(FALSE)
                                    [] o = "exc" -> "raised"]
  /\ UNCHANGED <<distributed, cuda, cfg_samples_per_gpu, world_size,
                 dataset_len_per_gpu, ceiling, max_bs,
                 resulting_batch_size, reduce_in, samples_per_gpu, dumped,
                 warned>>

\* del model; torch.cuda.empty_cache() (lines 133-134).
ReleaseDevice(d) == [model |-> FALSE, cached |-> FALSE]

\* Mutant of ReturnToMain: the worker keeps its local value, whatever the
\* collective produced.
ReturnLocalToMain(w, value) ==
  /\ resulting_batch_size' =
       [resulting_batch_size EXCEPT ![w] = SafeValue(batch_size[w])]
  /\ samples_per_gpu' =
       [samples_per_gpu EXCEPT ![w] = SafeValue(batch_size[w])]
  /\ dumped' = [dumped EXCEPT ![w] = SafeValue(batch_size[w])]
  /\ pc' = [pc EXCEPT ![w] = "clamp"]

\* return resulting_batch_size (line 147) into main, lines 231-233:
\* cfg.data.samples_per_gpu = <the value>; cfg.dump(...).
ReturnToMain(w, value) ==
  /\ resulting_batch_size' = [resulting_batch_size EXCEPT ![w] = value]
  /\ samples_per_gpu' = [samples_per_gpu EXCEPT ![w] = value]
  /\ dumped' = [dumped EXCEPT ![w] = value]
  /\ pc' = [pc EXCEPT ![w] = "clamp"]

\* Lines 131-140: the loop is over (range exhausted, or break).  The local
\* safe value and the release of the device; then, in a distributed job,
\* the entry into the blocking all_reduce, and otherwise the return of the
\* local value (lines 144-147).
Finish(w) ==
  /\ \/ pc[w] = "after"
     \/ pc[w] = "loop" /\ bs[w] >= max_bs[w]
  /\ device' = [device EXCEPT ![w] = ReleaseDevice(@)]
  /\ IF distributed
       THEN /\ resulting_batch_size' =
                 [resulting_batch_size EXCEPT ![w] = SafeValue(batch_size[w])]
            /\ reduce_in' = [reduce_in EXCEPT ![w] = SafeValue(batch_size[w])]
            /\ pc' = [pc EXCEPT ![w] = "wait"]
            /\ UNCHANGED <<samples_per_gpu, dumped>>
       ELSE /\ ReturnToMain(w, SafeValue(batch_size[w]))
            /\ reduce_in' = reduce_in
  /\ UNCHANGED <<distributed, cuda, cfg_samples_per_gpu, world_size,
                 dataset_len_per_gpu, ceiling, faults,
                 max_bs, bs, batch_size, log, warned>>

\* Mutant of GroupComplete: the collective returns once any rank has entered.
GroupAnyEntered == \E v \in Workers : reduce_in[v] # NoValue

\* The collective has the tensor of every rank of the group (line 140).
GroupComplete == \A v \in Workers : reduce_in[v] # NoValue

\* dist.all_reduce(resulting_batch_size, ReduceOp.MIN) completes on worker w
\* once every worker of the group has entered it; the reduced value is
\* returned (lines 140-147).
AllReduce(w) ==
  /\ pc[w] = "wait"
  /\ GroupComplete
  /\ ReturnToMain(w, ReduceOpMin({reduce_in[v] : v \in Workers}))
  /\ UNCHANGED <<distributed, cuda, cfg_samples_per_gpu, world_size,
                 dataset_len_per_gpu, ceiling, faults,
                 device, max_bs, bs, batch_size, log, reduce_in, warned>>

\* Mutant of ClampFires: <= for <.
ClampFiresOnEqual(len, n) == len <= n

\* if dataset_len_per_gpu < cfg.data.samples_per_gpu (line 238).
ClampFires(len, n) == len < n

\* int < str: the comparison of line 238 raises TypeError when
\* cfg.data.samples_per_gpu is still the string 'auto'.
ComparisonRaises(n) == n = AUTO

\* Lines 238-242 of main: the shard-length clamp and its warning; main then
\* goes on to train_detector.
Clamp(w) ==
  /\ \/ pc[w] = "clamp"
     \/ pc[w] = "main" /\ samples_per_gpu[w] # AUTO
  /\ IF ComparisonRaises(samples_per_gpu[w])
       THEN /\ pc' = [pc EXCEPT ![w] = "raised"]
            /\ UNCHANGED <<samples_per_gpu, warned>>
       ELSE /\ pc' = [pc EXCEPT ![w] = "train"]
            /\ IF ClampFires(dataset_len_per_gpu, samples_per_gpu[w])
                 THEN /\ samples_per_gpu' =
                           [samples_per_gpu EXCEPT ![w] = dataset_len_per_gpu]
                      /\ warned' = [warned EXCEPT ![w] = TRUE]
                 ELSE UNCHANGED <<samples_per_gpu, warned>>
  /\ UNCHANGED <<distributed, cuda, cfg_samples_per_gpu, world_size,
                 dataset_len_per_gpu, ceiling, faults,
                 device, max_bs, bs, batch_size, log, resulting_batch_size,
                 reduce_in, dumped>>

Next ==
  \/ \E w \in Workers : Enter(w)
  \/ \E w \in Workers : Fallback(w)
  \/ \E w \in Workers : Step(w)
  \/ \E w \in Workers : Finish(w)
  \/ \E w \in Workers : AllReduce(w)
  \/ \E w \in Workers : Clamp(w)

Spec == Init /\ [][Next]_vars

SpecDist == InitDist /\ [][Next]_vars

SpecMain == InitMain /\ [][Next]_vars

SpecSweep == InitSweep /\ [][Next]_vars

\* The steps of worker w: one process of the job.
WorkerNext(w) ==
  /\ w \in Workers
  /\ \/ Enter(w)
     \/ Fallback(w)
     \/ Step(w)
     \/ Finish(w)
     \/ AllReduce(w)
     \/ Clamp(w)

\* Every worker is a process of its own (one per rank of the launcher): a
\* worker that can take a step is eventually scheduled.
Fairness == \A w \in 1 .. MaxWorld : WF_vars(WorkerNext(w))

SpecFair == InitFair /\ [][Next]_vars /\ Fairness

(* ------------------------------ claims --------------------------------- *)
\* Worker w ran the auto-selection and determine_max_batch_size returned.
AutoReturned(w) ==
  pc[w] \in {"clamp", "train"} /\ max_bs[w] # 0

\* Worker w's probe loop is over: batch_size is the raw capacity.
ProbeEnded(w) ==
  \/ pc[w] = "loop" /\ bs[w] >= max_bs[w]
  \/ pc[w] = "after"
  \/ pc[w] = "wait"
  \/ AutoReturned(w)

\* Worker w's probe has tested a candidate that failed otherwise than by
\* memory exhaustion.
HasOtherFailure(w) ==
  \E i \in DOMAIN log[w] : log[w][i][2] \in {"rt", "exc"}

\* C1: in a distributed run the value determine_max_batch_size returns on a
\* worker is the minimum over all workers of floor(9 * raw / 10): it is at
\* most every worker's local value and it is one of them; with the local
\* values 5, 7, 9 it is 5.
C1_GlobalIsMinOfLocals ==
  distributed =>
    \A w \in Workers :
      AutoReturned(w) =>
        /\ \A v \in Workers :
             resulting_batch_size[w] <= (9 * batch_size[v]) \div 10
        /\ \E v \in Workers :
             resulting_batch_size[w] = (9 * batch_size[v]) \div 10
        /\ (/\ world_size = 3
            /\ {(9 * batch_size[v]) \div 10 : v \in Workers} = {5, 7, 9})
             => resulting_batch_size[w] = 5

\* Three workers with the local values 5, 7, 9 have all returned 5.
C1_Witness ==
  /\ distributed
  /\ world_size = 3
  /\ \A w \in Workers : AutoReturned(w) /\ resulting_batch_size[w] = 5
  /\ batch_size = <<6, 8, 10>>

\* C2: after auto-selection and the clamp, samples_per_gpu is >= 1 and
\* <= dataset_len_per_gpu on every worker.
C2_FinalWithinShard ==
  \A w \in Workers :
    (pc[w] = "train" /\ resulting_batch_size[w] # NoValue) =>
      /\ samples_per_gpu[w] >= 1
      /\ samples_per_gpu[w] <= dataset_len_per_gpu

\* A job of several workers, one of which met a non-OOM failure and one of
\* which ran out of memory, has finished selection and clamp on every worker.
C2_Witness ==
  /\ world_size > 1
  /\ \A w \in Workers : pc[w] = "train" /\ resulting_batch_size[w] # NoValue
  /\ \E w \in Workers : HasOtherFailure(w)
  /\ \E w \in Workers : \E i \in DOMAIN log[w] : log[w][i][2] = "oom"

\* C3: a candidate that fails otherwise than by memory exhaustion is the last
\* one tested, and the failure leaves determine_max_batch_size as an
\* exception (no batch size is returned).
C3_OtherFailurePropagates ==
  \A w \in Workers :
    \A i \in DOMAIN log[w] :
      log[w][i][2] \in {"rt", "exc"} =>
        /\ i = Len(log[w])
        /\ pc[w] = "raised"

\* C4: when the first candidate (2) runs out of memory, no batch size comes
\* out of the probe: neither a local safe value nor a configuration value.
C4_FirstCandidateOomIsFailure ==
  \A w \in Workers :
    (Len(log[w]) >= 1 /\ log[w][1] = <<2, "oom">>) =>
      /\ resulting_batch_size[w] = NoValue
      /\ samples_per_gpu[w] = AUTO

\* C5: no candidate is recorded as a success after a smaller candidate has
\* failed.
C5_NoSuccessAfterFailure ==
  \A w \in Workers :
    \A j \in DOMAIN log[w] :
      log[w][j][2] = "ok" =>
        \A i \in 1 .. j - 1 : log[w][i][2] = "ok"

\* C6 as stated: the raw capacity is strictly less than
\* min(512, ceil(shard_length / 0.9)).
C6_RawBelowCeilBound ==
  \A w \in Workers :
    ProbeEnded(w) =>
      batch_size[w] < Min2(512, (10 * dataset_len_per_gpu + 8) \div 9)

\* C6 amended: the raw capacity is strictly less than
\* min(512, floor(shard_length / 0.9) + 1) for a shard length >= 2, and it
\* is the initial minimum 2 for the shard length 1.
C6_RawBelowLoopBound ==
  \A w \in Workers :
    ProbeEnded(w) =>
      /\ dataset_len_per_gpu >= 2 =>
           batch_size[w] < Min2(512, (10 * dataset_len_per_gpu) \div 9 + 1)
      /\ dataset_len_per_gpu = 1 => batch_size[w] = 2

\* A probe ended with the largest raw capacity the 512 cap allows.
C6_Witness ==
  \E w \in Workers :
    /\ ProbeEnded(w)
    /\ batch_size[w] = 511
    /\ dataset_len_per_gpu > 460

\* C7: the raw capacity is a candidate whose step completed in this run, and
\* the value returned is at most every worker's memory ceiling.
C7_RawCompletedAndFits ==
  \A w \in Workers :
    /\ ProbeEnded(w) =>
         \E i \in DOMAIN log[w] : log[w][i] = <<batch_size[w], "ok">>
    /\ AutoReturned(w) =>
         \A v \in Workers : resulting_batch_size[w] <= ceiling[v]

\* C8: when the candidates 2..k-1 completed and k >= 3 is the first to run
\* out of memory, the candidates tested are exactly 2..k, each once, the
\* loop is over and the raw capacity is k - 1.
C8_StopsAtFirstOom ==
  \A w \in Workers :
    \A n \in DOMAIN log[w] :
      (/\ n >= 2
       /\ log[w][n][2] = "oom"
       /\ \A i \in 1 .. n - 1 : log[w][i][2] = "ok") =>
        /\ \A i \in 1 .. n : log[w][i][1] = i + 1
        /\ Len(log[w]) = n
        /\ pc[w] # "loop"
        /\ batch_size[w] = n

\* Candidates 2 and 3 completed, 4 ran out of memory, and main went on.
C8_Witness ==
  \E w \in Workers :
    /\ log[w] = << <<2, "ok">>, <<3, "ok">>, <<4, "oom">> >>
    /\ pc[w] = "train"

\* C9: when the loop reaches its upper bound and no candidate ran out of
\* memory, the raw capacity is the last candidate tested.
C9_BoundReachedGivesLastTested ==
  \A w \in Workers :
    (/\ ProbeEnded(w)
     /\ \A i \in DOMAIN log[w] : log[w][i][2] # "oom") =>
      /\ Len(log[w]) >= 1
      /\ batch_size[w] = log[w][Len(log[w])][1]

\* C10: once control has left the probe, by a return, into the reduction or
\* by an exception, the device is as the probe found it.
C10_DeviceReleasedOnExit ==
  \A w \in Workers :
    pc[w] \in {"wait", "clamp", "train", "raised"} => device[w] = CleanDevice

\* C11: in a distributed run a worker has returned from
\* determine_max_batch_size only when every worker has left its probe loop
\* and has contributed its local safe value to the reduction.
C11_ReductionIsBarrier ==
  distributed =>
    \A w \in Workers :
      AutoReturned(w) =>
        \A v \in Workers :
          /\ pc[v] \in {"wait", "clamp", "train"}
          /\ reduce_in[v] = (9 * batch_size[v]) \div 10

\* One of several workers has returned while another still waits in the
\* reduction.
C11_Witness ==
  /\ distributed
  /\ world_size > 1
  /\ \E w \in Workers : AutoReturned(w)
  /\ \E v \in Workers : pc[v] = "wait"

\* C12: when the probe of some worker ended without a recorded success, or
\* raised, that worker contributes nothing and no worker of the job gets a
\* batch size.
C12_NoSuccessFailsJob ==
  \A w \in Workers :
    (/\ distributed
     /\ ProbeEnded(w) \/ (pc[w] = "raised" /\ log[w] # <<>>)
     /\ \A i \in DOMAIN log[w] : log[w][i][2] # "ok") =>
      /\ reduce_in[w] = NoValue
      /\ \A v \in Workers : ~AutoReturned(v)

\* Worker w is about to run the clamp on a number.
AtClamp(w) ==
  /\ samples_per_gpu[w] # AUTO
  /\ \/ pc[w] = "clamp"
     \/ pc[w] = "main"

\* C13: the clamp of main, given a batch size above dataset_len_per_gpu,
\* replaces it by dataset_len_per_gpu, warns, and goes on to training;
\* given any other batch size it leaves it unchanged, does not warn, and
\* goes on to training.  Shard length 4 and value 10 give 4.
C13_ClampBehaviour ==
  [][\A w \in Workers :
       (AtClamp(w) /\ pc'[w] # pc[w]) =>
         /\ pc'[w] = "train"
         /\ IF samples_per_gpu[w] > dataset_len_per_gpu
              THEN /\ samples_per_gpu'[w] = dataset_len_per_gpu
                   /\ warned'[w]
              ELSE /\ samples_per_gpu'[w] = samples_per_gpu[w]
                   /\ ~warned'[w]
         /\ (dataset_len_per_gpu = 4 /\ samples_per_gpu[w] = 10)
              => samples_per_gpu'[w] = 4]_vars

\* The configured value 10 was cut to the shard length 4 with a warning, and
\* main went on to training.
C13_Witness ==
  \E w \in Workers :
    /\ pc[w] = "train"
    /\ cfg_samples_per_gpu = 10
    /\ dataset_len_per_gpu = 4
    /\ samples_per_gpu[w] = 4
    /\ warned[w]

\* Every worker of the job is past selection and clamp.
AllTraining == \A w \in Workers : pc[w] = "train"

\* C14: once every worker of the job has finished batch-size selection and
\* the clamp, all workers hold the same cfg.data.samples_per_gpu, whatever
\* the memory ceilings of the workers and the dataset length (at least one
\* sample per worker).
C14_WorkersAgree ==
  AllTraining =>
    \A w \in Workers : \A v \in Workers :
      samples_per_gpu[w] = samples_per_gpu[v]

\* A job of several workers whose local safe values differ has finished
\* auto-selection and the clamp on every worker.
C14_Witness ==
  /\ distributed /\ world_size > 1
  /\ AllTraining
  /\ \A w \in Workers : max_bs[w] # 0
  /\ \E w \in Workers : \E v \in Workers : reduce_in[w] # reduce_in[v]

\* C15: for every raw capacity 2..511 the probe can end with, the local safe
\* value computed before the reduction is floor(9 * raw / 10); a
\* single-process run returns this local value and performs no reduction.
C15_LocalSafeIsFloor ==
  \A w \in Workers :
    (pc[w] \in {"wait", "clamp", "train"} /\ max_bs[w] # 0) =>
      /\ batch_size[w] \in 2 .. 511
      /\ resulting_batch_size[w] = (9 * batch_size[w]) \div 10
      /\ distributed => reduce_in[w] = (9 * batch_size[w]) \div 10
      /\ ~distributed =>
           /\ reduce_in[w] = NoValue
           /\ pc[w] # "wait"
           /\ dumped[w] = (9 * batch_size[w]) \div 10

\* A single-process probe ended with the largest raw capacity, 511, and
\* returned floor(9 * 511 / 10) = 459 to main without a reduction.
C15_Witness ==
  \E w \in Workers :
    /\ ~distributed
    /\ pc[w] = "clamp"
    /\ batch_size[w] = 511
    /\ resulting_batch_size[w] = 459
    /\ reduce_in[w] = NoValue

\* C16: with a deterministic allocator (a candidate exhausts memory iff it
\* exceeds the worker's ceiling, no other failure), two probe runs with the
\* same configuration, shard length and ceiling end with the same raw
\* capacity: the raw capacity is a function of shard length and ceiling, the
\* largest candidate below the loop bound that fits, or min_bs if none.
C16_SameInputsSameRaw ==
  \A w \in Workers :
    (ProbeEnded(w) /\ ~HasOtherFailure(w)) =>
      /\ batch_size[w] =
           IF Min2(ceiling[w], MaxBs(dataset_len_per_gpu) - 1) < min_bs
             THEN min_bs
             ELSE Min2(ceiling[w], MaxBs(dataset_len_per_gpu) - 1)
      /\ \A v \in Workers :
           (/\ ProbeEnded(v) /\ ~HasOtherFailure(v)
            /\ ceiling[v] = ceiling[w]) =>
             batch_size[v] = batch_size[w]

\* Two workers with the same ceiling have both ended their probes, without
\* any other failure, with a raw capacity found by the loop.
C16_Witness ==
  \E w \in Workers : \E v \in Workers :
    /\ w # v
    /\ ceiling[w] = ceiling[v]
    /\ ProbeEnded(w) /\ ~HasOtherFailure(w)
    /\ ProbeEnded(v) /\ ~HasOtherFailure(v)
    /\ batch_size[w] = batch_size[v]
    /\ batch_size[w] > min_bs

\* C17: on the auto-selection path the value determine_max_batch_size
\* returns is at most dataset_len_per_gpu, for every shard length, ceiling
\* and number of workers; so the clamp does not fire after auto-selection,
\* and the configuration dumped before the clamp holds the batch size that
\* training uses.
C17_AutoValueWithinShard ==
  \A w \in Workers :
    AutoReturned(w) =>
      /\ resulting_batch_size[w] <= dataset_len_per_gpu
      /\ ~warned[w]
      /\ dumped[w] = resulting_batch_size[w]
      /\ samples_per_gpu[w] = dumped[w]

\* Every worker of a job of several workers is at training after
\* auto-selection, with the returned value equal to the shard length: the
\* clamp compared equal values and did not fire.
C17_Witness ==
  /\ world_size > 1
  /\ \A w \in Workers :
       /\ AutoReturned(w)
       /\ pc[w] = "train"
       /\ resulting_batch_size[w] = dataset_len_per_gpu
       /\ samples_per_gpu[w] = dumped[w]
       /\ ~warned[w]

\* A distributed job starts on the auto-selection path.
AutoJobStarts ==
  /\ distributed /\ cuda
  /\ \A w \in Workers : pc[w] = "main" /\ samples_per_gpu[w] = AUTO

\* A worker has left the program through an exception.
SomeRaised == \E w \in Workers : pc[w] = "raised"

\* Every worker has returned from the reduction with the minimum of the
\* local safe values.
AllReturnedGlobal ==
  \A w \in Workers :
    /\ AutoReturned(w)
    /\ \A v \in Workers :
         resulting_batch_size[w] <= (9 * batch_size[v]) \div 10
    /\ \E v \in Workers :
         resulting_batch_size[w] = (9 * batch_size[v]) \div 10

\* C18 (temporal): in a distributed run every worker's probe loop makes at
\* most min(511, floor(shard_length / 0.9)) - 1 steps; unless a worker fails
\* fatally, under fair scheduling of the workers every worker eventually
\* returns from the reduction with the global value; and while a worker has
\* not reached the reduction (it never does once it has raised), no worker
\* has returned from it.
C18_ProbeTerminatesAndBarrier ==
  /\ [](\A w \in Workers :
          Len(log[w]) <= Min2(511, (10 * dataset_len_per_gpu) \div 9) - 1)
  /\ [](distributed =>
          ((\E w \in Workers : reduce_in[w] = NoValue) =>
             \A v \in Workers : ~AutoReturned(v)))
  /\ AutoJobStarts ~> (SomeRaised \/ AllReturnedGlobal)

\* A job of several workers has ended with every worker returned from the
\* reduction, one of them after the full number of probe steps and another
\* after fewer.
C18_Witness ==
  /\ distributed /\ world_size > 1
  /\ AllReturnedGlobal
  /\ ~SomeRaised
  /\ \E w \in Workers :
       /\ Len(log[w]) > 0
       /\ Len(log[w]) = Min2(511, (10 * dataset_len_per_gpu) \div 9) - 1
  /\ \E w \in Workers :
       Len(log[w]) < Min2(511, (10 * dataset_len_per_gpu) \div 9) - 1

\* C19: when samples_per_gpu is 'auto' and no accelerator is available, main
\* runs neither the probe nor the reduction and sets the batch size to the
\* value the configuration file gave before the overrides were merged; the
\* value that reaches the clamp is an integer, never 'auto', so the
\* comparison of the clamp does not raise.
C19_FallbackReachesClampWithInteger ==
  \A w \in Workers :
    ~cuda =>
      /\ max_bs[w] = 0
      /\ log[w] = <<>>
      /\ reduce_in[w] = NoValue
      /\ pc[w] = "clamp" =>
           /\ samples_per_gpu[w] = cfg_samples_per_gpu
           /\ samples_per_gpu[w] # AUTO
      /\ pc[w] # "raised"

====
